---- MODULE Spec2Model ----
(***************************************************************************)
(* Model of ShapesApp (A2-Water-Land-Lights-Textures.cpp): the frame       *)
(* resource ring driven by Update/Draw and the GPU fence, the dirty        *)
(* counters that push render-item constants into the ring, and the         *)
(* MazeCollision picker.                                                    *)
(*                                                                         *)
(* Lengths are fixed-point, in units of 0.5: the picker's 2.0f is 4 and a  *)
(* box of side 1.0 spans -1 .. 1. Directions are plain ratios.             *)
(***************************************************************************)
EXTENDS Integers, Sequences, FiniteSets, TLC

\* const int gNumFrameResources = 3;
gNumFrameResources == 3

\* mCurrentFence after Initialize(): its FlushCommandQueue() advanced the
\* fence once and waited until the GPU reached it.
InitFence == 1

\* MathHelper::Infinity (FLT_MAX), larger than every length of the model.
Infinity == 1000000

\* if (tmin <= 2.0f), in units of 0.5.
StopDistance == 4

\* One past the largest 16-bit index: the weight of the high half of a
\* 32-bit word read from the 16-bit index buffer.
Word16 == 65536

\* Time is counted in ticks of 1/32 s and texture offsets in units of
\* 1/1600, so that 0.1f * dt and 0.02f * dt are whole numbers.
Quarter == 8      \* 0.25f seconds
UVOne == 1600     \* 1.0f
UScroll == 5      \* 0.1f per second
VScroll == 1      \* 0.02f per second

\* Waves(128, 128, ...) and the margins of MathHelper::Rand(4, n - 5).
RowCount == 128
ColumnCount == 128
RandLo == 4
RandMargin == 5

\* Bounds of the model.
MaxFrames == 4   \* frames submitted
MaxCamX == 1     \* the camera strafes over 0 .. MaxCamX
MaxCamZ == 1     \* the camera walks over 0 .. MaxCamZ
MaxClicks == 2   \* right-button clicks handled

VARIABLES
    pc,                       \* where the CPU thread is
    mCurrFrameResourceIndex,  \* ring index
    Fence,                    \* mFrameResources[i]->Fence
    mCurrentFence,            \* last value signalled on the command queue
    completedValue,           \* mFence->GetCompletedValue()
    mAllRitems,               \* the render items, in creation order
    ObjectCB,                 \* mFrameResources[i]->ObjectCB, by ObjCBIndex
    mCameraPos,               \* mCamera position
    bStopForwardMovement,
    cpuWrites,                \* the ring-slot writes of the last Update or Draw
    objWrites,                \* per item: its object-constant copies since it was
                              \* last marked dirty; `frame` is mCurrentFence then
    drawCalls,                \* the DrawIndexedInstanced calls of the last Draw
    lastPick,                 \* the MazeCollision call since the last Update, if any
    clicks,                   \* right-button clicks handled so far
    mTimer,                   \* GameTimer: TotalTime and DeltaTime
    t_base,                   \* the static local of UpdateWaves
    disturbs,                 \* the Disturb calls made: how many, and the last one
    mMaterials,               \* the materials, by name
    MaterialCB,               \* mFrameResources[i]->MaterialCB, by MatCBIndex
    matWrites                 \* per material: its constant copies since it was
                              \* last marked dirty

vars == <<pc, mCurrFrameResourceIndex, Fence, mCurrentFence, completedValue,
          mAllRitems, ObjectCB, mCameraPos, bStopForwardMovement,
          cpuWrites, objWrites, drawCalls, lastPick, clicks,
          mTimer, t_base, disturbs, mMaterials, MaterialCB, matWrites>>

ringVars == <<mCurrFrameResourceIndex, Fence, mCurrentFence, completedValue>>

\* What the time-driven part of Update works on.
animVars == <<t_base, disturbs, mMaterials, MaterialCB, matWrites>>

(***************************************************************************)
(* Vectors and matrices (DirectXMath, row vectors).                         *)
(***************************************************************************)
VSub(a, b) == <<a[1] - b[1], a[2] - b[2], a[3] - b[3]>>
Dot(a, b) == a[1] * b[1] + a[2] * b[2] + a[3] * b[3]
Cross(a, b) == <<a[2] * b[3] - a[3] * b[2],
                 a[3] * b[1] - a[1] * b[3],
                 a[1] * b[2] - a[2] * b[1]>>
Min2(a, b) == IF a <= b THEN a ELSE b
Max2(a, b) == IF a >= b THEN a ELSE b
Abs(a) == IF a < 0 THEN -a ELSE a
Sign(a) == IF a < 0 THEN -1 ELSE IF a > 0 THEN 1 ELSE 0
VMin(a, b) == <<Min2(a[1], b[1]), Min2(a[2], b[2]), Min2(a[3], b[3])>>
VMax(a, b) == <<Max2(a[1], b[1]), Max2(a[2], b[2]), Max2(a[3], b[3])>>

\* MathHelper::Identity4x4()
Identity4x4 == <<<<1, 0, 0, 0>>, <<0, 1, 0, 0>>, <<0, 0, 1, 0>>, <<0, 0, 0, 1>>>>

\* XMMatrixTranslation
XMMatrixTranslation(x, y, z) ==
    <<<<1, 0, 0, 0>>, <<0, 1, 0, 0>>, <<0, 0, 1, 0>>, <<x, y, z, 1>>>>

\* Element (i, j) of the product A * B.
MulElem(A, B, i, j) ==
    A[i][1] * B[1][j] + A[i][2] * B[2][j] + A[i][3] * B[3][j] + A[i][4] * B[4][j]

MulRow(A, B, i) ==
    <<MulElem(A, B, i, 1), MulElem(A, B, i, 2), MulElem(A, B, i, 3), MulElem(A, B, i, 4)>>

XMMatrixMultiply(A, B) ==
    <<MulRow(A, B, 1), MulRow(A, B, 2), MulRow(A, B, 3), MulRow(A, B, 4)>>

XMMatrixTranspose(M) ==
    <<<<M[1][1], M[2][1], M[3][1], M[4][1]>>,
      <<M[1][2], M[2][2], M[3][2], M[4][2]>>,
      <<M[1][3], M[2][3], M[3][3], M[4][3]>>,
      <<M[1][4], M[2][4], M[3][4], M[4][4]>>>>

\* XMMatrixInverse of an affine matrix whose linear part is the identity:
\* every world and view matrix of the model is a translation.
XMMatrixInverse(M) ==
    <<M[1], M[2], M[3], <<-M[4][1], -M[4][2], -M[4][3], M[4][4]>>>>

\* Component j of (x, y, z, w) * M.
MulVec(v, w, M, j) == v[1] * M[1][j] + v[2] * M[2][j] + v[3] * M[3][j] + w * M[4][j]

\* XMVector3TransformCoord: (x, y, z, 1) * M, divided by w.
XMVector3TransformCoord(v, M) ==
    <<MulVec(v, 1, M, 1) \div MulVec(v, 1, M, 4),
      MulVec(v, 1, M, 2) \div MulVec(v, 1, M, 4),
      MulVec(v, 1, M, 3) \div MulVec(v, 1, M, 4)>>

\* XMVector3TransformNormal: (x, y, z, 0) * M.
XMVector3TransformNormal(v, M) ==
    <<MulVec(v, 0, M, 1), MulVec(v, 0, M, 2), MulVec(v, 0, M, 3)>>

\* XMVector3Normalize of a vector along one axis.
XMVector3Normalize(v) == <<Sign(v[1]), Sign(v[2]), Sign(v[3])>>

(***************************************************************************)
(* BuildShapeGeometry: the meshes packed into shapeGeo.  GeometryGenerator  *)
(* is outside the file; each mesh is cut down to one quad (two triangles),  *)
(* the box 1.0 wide and high, the cylinder 1.0 wide and 3.0 high.           *)
(***************************************************************************)
BoxMesh ==
    [Vertices  |-> <<<<-1, -1, 0>>, <<-1, 1, 0>>, <<1, 1, 0>>, <<1, -1, 0>>>>,
     Indices32 |-> <<0, 1, 2, 0, 2, 3>>]

CylinderMesh ==
    [Vertices  |-> <<<<-1, -3, 0>>, <<-1, 3, 0>>, <<1, 3, 0>>, <<1, -3, 0>>>>,
     Indices32 |-> <<0, 1, 2, 0, 2, 3>>]

\* The meshes in the order BuildShapeGeometry concatenates them.
ShapeNames == <<"box", "box2", "cylinder", "cylinder2">>
ShapeMesh(n) == IF n <= 2 THEN BoxMesh ELSE CylinderMesh

RECURSIVE VertexOffset(_)
VertexOffset(n) ==
    IF n = 1 THEN 0 ELSE VertexOffset(n - 1) + Len(ShapeMesh(n - 1).Vertices)

RECURSIVE IndexOffset(_)
IndexOffset(n) ==
    IF n = 1 THEN 0 ELSE IndexOffset(n - 1) + Len(ShapeMesh(n - 1).Indices32)

RECURSIVE ConcatVertices(_)
ConcatVertices(n) ==
    IF n = 0 THEN <<>> ELSE ConcatVertices(n - 1) \o ShapeMesh(n).Vertices

\* MeshData::GetIndices16: each 32-bit index narrowed to 16 bits.
GetIndices16(mesh) == [i \in 1 .. Len(mesh.Indices32) |-> mesh.Indices32[i] % Word16]

RECURSIVE ConcatIndices16(_)
ConcatIndices16(n) ==
    IF n = 0 THEN <<>> ELSE ConcatIndices16(n - 1) \o GetIndices16(ShapeMesh(n))

\* geo->VertexBufferCPU of shapeGeo: the vertex positions.
VertexBufferCPU == ConcatVertices(Len(ShapeNames))

\* geo->IndexBufferCPU of shapeGeo: std::uint16_t values.
IndexBufferCPU == ConcatIndices16(Len(ShapeNames))

\* The bounding box of submesh n as the fill loops compute it: the loop
\* over the mesh's vertices reads vertices[i], i counting from 0 in every
\* loop, not the vertices[k] it has just stored.
RECURSIVE BoundsMin(_, _)
BoundsMin(n, i) ==
    IF i = 0 THEN <<Infinity, Infinity, Infinity>>
    ELSE VMin(BoundsMin(n, i - 1), VertexBufferCPU[i])

RECURSIVE BoundsMax(_, _)
BoundsMax(n, i) ==
    IF i = 0 THEN <<-Infinity, -Infinity, -Infinity>>
    ELSE VMax(BoundsMax(n, i - 1), VertexBufferCPU[i])

SubmeshBounds(n) ==
    LET cnt == Len(ShapeMesh(n).Vertices)
        lo == BoundsMin(n, cnt)
        hi == BoundsMax(n, cnt)
    IN [Center  |-> <<(lo[1] + hi[1]) \div 2, (lo[2] + hi[2]) \div 2,
                      (lo[3] + hi[3]) \div 2>>,
        Extents |-> <<(hi[1] - lo[1]) \div 2, (hi[2] - lo[2]) \div 2,
                      (hi[3] - lo[3]) \div 2>>]

ShapeIndex(name) == CHOOSE n \in 1 .. Len(ShapeNames) : ShapeNames[n] = name

\* geo->DrawArgs[name] of shapeGeo.
DrawArgs(name) ==
    LET n == ShapeIndex(name) IN
    [IndexCount         |-> Len(ShapeMesh(n).Indices32),
     StartIndexLocation |-> IndexOffset(n),
     BaseVertexLocation |-> VertexOffset(n),
     Bounds             |-> SubmeshBounds(n)]

(***************************************************************************)
(* BuildRenderItems: one item of each kind the scene holds, in the order   *)
(* they are pushed onto mAllRitems.  The maze wall made by the last         *)
(* CreateItem call and the highlight item get the same ObjCBIndex.          *)
(***************************************************************************)
\* BoundingBox(): what an item holds when no Bounds is assigned.
DefaultBounds == [Center |-> <<0, 0, 0>>, Extents |-> <<2, 2, 2>>]

\* An item of shapeGeo, as CreateItem and the inline blocks fill it in.
ShapeItem(name, world, cbIndex) ==
    [World              |-> world,
     TexTransform       |-> Identity4x4,
     NumFramesDirty     |-> gNumFrameResources,
     ObjCBIndex         |-> cbIndex,
     Geo                |-> "shapeGeo",
     IndexCount         |-> DrawArgs(name).IndexCount,
     StartIndexLocation |-> DrawArgs(name).StartIndexLocation,
     BaseVertexLocation |-> DrawArgs(name).BaseVertexLocation,
     Bounds             |-> DrawArgs(name).Bounds,
     Visible            |-> TRUE]

\* An item of another geometry (tree sprites, waves): no Bounds assigned.
OtherItem(geo, cbIndex, indexCount) ==
    [World              |-> Identity4x4,
     TexTransform       |-> Identity4x4,
     NumFramesDirty     |-> gNumFrameResources,
     ObjCBIndex         |-> cbIndex,
     Geo                |-> geo,
     IndexCount         |-> indexCount,
     StartIndexLocation |-> 0,
     BaseVertexLocation |-> 0,
     Bounds             |-> DefaultBounds,
     Visible            |-> TRUE]

\* pickedRitem: invisible, an empty draw range until a triangle is picked.
PickedItem(cbIndex) ==
    [OtherItem("shapeGeo", cbIndex, 0) EXCEPT !.Visible = FALSE]

BuildRenderItems ==
    << ShapeItem("box",       XMMatrixTranslation(-1, 0, 0), 0),   \* boxRitem
       ShapeItem("box2",      XMMatrixTranslation(1, 0, 1), 1),    \* boxRitem2
       ShapeItem("cylinder",  XMMatrixTranslation(3, 0, 1), 2),    \* rItem[i][j]
       ShapeItem("cylinder2", XMMatrixTranslation(6, 0, 0), 3),    \* rItem2[i][j]
       OtherItem("treeSpritesGeo", 4, 4),                          \* treeSpritesRitem
       OtherItem("waterGeo", 5, 6),                                \* wavesRitem
       ShapeItem("box",       XMMatrixTranslation(-4, 0, 4), 6),   \* last CreateItem
       PickedItem(6) >>                                            \* pickedRitem

\* mPickedRitem and mWavesRitem
PickedId == 8
WavesId == 6

\* mRitemLayer[...]
OpaqueLayer == <<1, 2, 3, 4, 7>>
TransparentLayer == <<WavesId>>
TreeSpritesLayer == <<5>>
HighlightLayer == <<PickedId>>

Items == 1 .. Len(BuildRenderItems)

(***************************************************************************)
(* State after Initialize().                                                *)
(***************************************************************************)
Slots == 0 .. (gNumFrameResources - 1)

\* BuildFrameResources: every slot gets mAllRitems.size() object constants.
CBIndices == 0 .. (Len(BuildRenderItems) - 1)

\* BuildMaterials, cut down to the animated material "eight" and one of
\* the others; a Material starts with NumFramesDirty = gNumFrameResources.
MaterialNames == {"one", "eight"}

BuildMaterials ==
    [m \in MaterialNames |->
        [MatCBIndex     |-> IF m = "one" THEN 0 ELSE 7,
         MatTransform   |-> Identity4x4,
         NumFramesDirty |-> gNumFrameResources]]

\* BuildFrameResources: every slot gets mMaterials.size() material
\* constants; these are the elements the materials of the model use.
MatCBIndices == {BuildMaterials[m].MatCBIndex : m \in MaterialNames}

NoDisturb == [count |-> 0, called |-> FALSE, i |-> 0, j |-> 0]

NoPick ==
    [fresh |-> FALSE, returned |-> FALSE, items |-> <<>>,
     before |-> BuildRenderItems[PickedId]]

Init ==
    /\ pc = "idle"
    /\ mCurrFrameResourceIndex = 0
    /\ Fence = [s \in Slots |-> 0]
    /\ mCurrentFence = InitFence
    /\ completedValue = InitFence
    /\ mAllRitems = BuildRenderItems
    /\ ObjectCB = [s \in Slots |-> [c \in CBIndices |-> "unwritten"]]
    /\ mCameraPos = <<0, 0, 0>>
    \* bool bStopForwardMovement; has no initializer and the constructor
    \* sets nothing: its first value is whatever the memory held.
    /\ bStopForwardMovement \in BOOLEAN
    /\ cpuWrites = {}
    /\ objWrites = [e \in Items |-> <<>>]
    /\ drawCalls = <<>>
    /\ lastPick = NoPick
    /\ clicks = 0
    /\ mTimer = [TotalTime |-> 0, DeltaTime |-> 0]
    /\ t_base = 0
    /\ disturbs = NoDisturb
    /\ mMaterials = BuildMaterials
    /\ MaterialCB = [s \in Slots |-> [c \in MatCBIndices |-> "unwritten"]]
    /\ matWrites = [m \in MaterialNames |-> <<>>]

(***************************************************************************)
(* Update and Draw.                                                         *)
(***************************************************************************)
\* The fence test one value too lenient.
MustWaitOneBehind(f) == f /= 0 /\ completedValue + 1 < f

\* Update, line 319: the slot was submitted and the GPU is not yet past it.
MustWait(f) == f /= 0 /\ completedValue < f

\* The index advanced without ever reaching the last slot.
NextIndexShortRing(i) == (i + 1) % (gNumFrameResources - 1)

\* Update, line 314.
NextIndex(i) == (i + 1) % gNumFrameResources

\* A write into buffer buf of slot s, with what the fence said at that time.
SlotWrite(buf, s) ==
    [buf |-> buf, slot |-> s, fence |-> Fence[s], completed |-> completedValue]

Keys == {"W", "S", "A", "D"}

\* OnKeyboardInput with the keys held down; 10.0f * dt is one unit.
OnKeyboardInput(keys) ==
    LET walkW  == IF "W" \in keys /\ bStopForwardMovement = FALSE THEN 1 ELSE 0
        walkS  == IF "S" \in keys THEN -1 ELSE 0
        strafe == (IF "D" \in keys THEN 1 ELSE 0) - (IF "A" \in keys THEN 1 ELSE 0)
    IN <<mCameraPos[1] + strafe, mCameraPos[2], mCameraPos[3] + walkW + walkS>>

InGrid(p) == p[1] \in 0 .. MaxCamX /\ p[3] \in 0 .. MaxCamZ

\* The ObjectConstants UpdateObjectCBs stores for an item.
ObjConstants(e) ==
    [World        |-> XMMatrixTranspose(e.World),
     TexTransform |-> XMMatrixTranspose(e.TexTransform)]

\* The copy and the decrement made without the test.
IsDirtyAlways(e) == TRUE

\* UpdateObjectCBs, line 539.
IsDirty(e) == e.NumFramesDirty > 0

\* The copy without the decrement.
AfterCopyKeepsCount(e) == e

\* UpdateObjectCBs, line 551.
AfterCopy(e) == [e EXCEPT !.NumFramesDirty = e.NumFramesDirty - 1]

\* UpdateObjectCBs over the items 1 .. n: the object constants of slot
\* `cb` after the loop has gone through them in order.
RECURSIVE CopyObjectCBs(_, _)
CopyObjectCBs(cb, n) ==
    IF n = 0 THEN cb
    ELSE LET prev == CopyObjectCBs(cb, n - 1)
             e == mAllRitems[n]
         IN IF IsDirty(e)
            THEN [prev EXCEPT ![e.ObjCBIndex] = ObjConstants(e)]
            ELSE prev

\* mTimer.Tick() before Update: a frame of dt ticks.
Tick(dt) == [TotalTime |-> mTimer.TotalTime + dt, DeltaTime |-> dt]

\* The frame durations and key sets of the runs with picking: frames of
\* 1/32 s; and of the runs that follow the animation: no keys, frames of
\* 1/8 s and of 25 s.
FrameTimes == {1}
ShortFrame == 4
LongFrame == 800
AnimFrameTimes == {ShortFrame, LongFrame}
NoKeys == {{}}

\* AnimateMaterials, lines 517-521: one subtraction when the offset reached 1.0.
WrapUV(t) == IF t >= UVOne THEN t - UVOne ELSE t

\* MatTransform with the entries (3, 0) and (3, 1) set.
SetUV(M, tu, tv) == <<M[1], M[2], M[3], <<tu, tv, M[4][3], M[4][4]>>>>

\* The water material as AnimateMaterials leaves it, without the dirty mark.
AnimateMaterialsNoMark(mats, gt) ==
    [mats EXCEPT !["eight"].MatTransform =
        SetUV(@, WrapUV(@[4][1] + UScroll * gt.DeltaTime),
                 WrapUV(@[4][2] + VScroll * gt.DeltaTime))]

\* AnimateMaterials: the materials after it.
AnimateMaterials(mats, gt) ==
    [mats EXCEPT !["eight"] =
        [@ EXCEPT !.MatTransform =
                      SetUV(@, WrapUV(@[4][1] + UScroll * gt.DeltaTime),
                               WrapUV(@[4][2] + VScroll * gt.DeltaTime)),
                  !.NumFramesDirty = gNumFrameResources]]

\* The MaterialConstants UpdateMaterialCBs stores (the colours are fixed).
MatConstants(mat) == [MatTransform |-> XMMatrixTranspose(mat.MatTransform)]

\* UpdateMaterialCBs on the materials `mats` and slot i.
UpdateMaterialCBs(mats, i) ==
    /\ MaterialCB' = [MaterialCB EXCEPT ![i] =
            [c \in MatCBIndices |->
                IF \E m \in MaterialNames : mats[m].MatCBIndex = c /\ IsDirty(mats[m])
                THEN MatConstants(mats[CHOOSE m \in MaterialNames :
                                            mats[m].MatCBIndex = c /\ IsDirty(mats[m])])
                ELSE MaterialCB[i][c]]]
    /\ mMaterials' = [m \in MaterialNames |->
            IF IsDirty(mats[m]) THEN AfterCopy(mats[m]) ELSE mats[m]]
    /\ matWrites' = [m \in MaterialNames |->
            LET since == IF mats[m] = mMaterials[m] THEN matWrites[m] ELSE <<>> IN
            IF IsDirty(mats[m])
            THEN Append(since, [slot |-> i, frame |-> mCurrentFence,
                                data |-> MatConstants(mats[m])])
            ELSE since]

\* MathHelper::Rand(a, b): a value from a to b; the two ends stand for all.
Rand(a, b) == {a, b}

\* Disturbing from the very edge of the grid.
DisturbCellsFromEdge == Rand(0, RowCount - 1) \X Rand(0, ColumnCount - 1)

\* UpdateWaves, lines 668-669: the cells (i, j) a disturbance may get.
DisturbCells == Rand(RandLo, RowCount - RandMargin) \X Rand(RandLo, ColumnCount - RandMargin)

\* UpdateWaves, lines 663-674: at most one Disturb per call.
UpdateWaves(gt) ==
    IF gt.TotalTime - t_base >= Quarter
    THEN /\ t_base' = t_base + Quarter
         /\ \E c \in DisturbCells :
                disturbs' = [count |-> disturbs.count + 1, called |-> TRUE,
                             i |-> c[1], j |-> c[2]]
    ELSE /\ t_base' = t_base
         /\ disturbs' = [disturbs EXCEPT !.called = FALSE, !.i = 0, !.j = 0]

\* Update after the fence test, on slot i, with the timer at gt.
UpdateRest(i, gt) ==
    /\ ObjectCB' = [ObjectCB EXCEPT ![i] = CopyObjectCBs(ObjectCB[i], Len(mAllRitems))]
    /\ mAllRitems' = [n \in Items |->
            IF IsDirty(mAllRitems[n]) THEN AfterCopy(mAllRitems[n]) ELSE mAllRitems[n]]
    /\ objWrites' = [n \in Items |->
            IF IsDirty(mAllRitems[n])
            THEN Append(objWrites[n], [slot |-> i, frame |-> mCurrentFence,
                                       data |-> ObjConstants(mAllRitems[n])])
            ELSE objWrites[n]]
    /\ UpdateMaterialCBs(AnimateMaterials(mMaterials, gt), i)
    /\ UpdateWaves(gt)
    /\ cpuWrites' =
            {SlotWrite("ObjectCB", i) : n \in {m \in Items : IsDirty(mAllRitems[m])}}
            \cup {SlotWrite("MaterialCB", i), SlotWrite("PassCB", i), SlotWrite("WavesVB", i)}
    /\ lastPick' = NoPick

\* Update when the next slot is free: no wait.
UpdateNoWaitIn(keysets, dts) ==
    /\ pc = "idle"
    /\ mCurrentFence < InitFence + MaxFrames
    /\ \E p \in {OnKeyboardInput(keys) : keys \in keysets} :
        /\ InGrid(p)
        /\ mCameraPos' = p
    /\ \E dt \in dts :
       LET i == NextIndex(mCurrFrameResourceIndex) IN
        /\ ~MustWait(Fence[i])
        /\ mCurrFrameResourceIndex' = i
        /\ mTimer' = Tick(dt)
        /\ UpdateRest(i, Tick(dt))
    /\ pc' = "updated"
    /\ UNCHANGED <<Fence, mCurrentFence, completedValue, bStopForwardMovement, drawCalls,
                   clicks>>

UpdateNoWait == UpdateNoWaitIn(SUBSET Keys, FrameTimes)

\* Update up to WaitForSingleObject(eventHandle, INFINITE).
UpdateBlockIn(keysets, dts) ==
    /\ pc = "idle"
    /\ mCurrentFence < InitFence + MaxFrames
    /\ \E p \in {OnKeyboardInput(keys) : keys \in keysets} :
        /\ InGrid(p)
        /\ mCameraPos' = p
    /\ \E dt \in dts : mTimer' = Tick(dt)
    /\ LET i == NextIndex(mCurrFrameResourceIndex) IN
        /\ MustWait(Fence[i])
        /\ mCurrFrameResourceIndex' = i
    /\ pc' = "wait"
    /\ UNCHANGED <<Fence, mCurrentFence, completedValue, mAllRitems, ObjectCB,
                   bStopForwardMovement, cpuWrites, objWrites, drawCalls, lastPick,
                   clicks, animVars>>

UpdateBlock == UpdateBlockIn(SUBSET Keys, FrameTimes)

\* ThrowIfFailed(mFence->SetEventOnCompletion(...)) throws; WinMain catches
\* the DxException, shows it and returns.
UpdateThrowIn(keysets, dts) ==
    /\ pc = "idle"
    /\ mCurrentFence < InitFence + MaxFrames
    /\ \E p \in {OnKeyboardInput(keys) : keys \in keysets} :
        /\ InGrid(p)
        /\ mCameraPos' = p
    /\ \E dt \in dts : mTimer' = Tick(dt)
    /\ LET i == NextIndex(mCurrFrameResourceIndex) IN
        /\ MustWait(Fence[i])
        /\ mCurrFrameResourceIndex' = i
    /\ pc' = "fatal"
    /\ UNCHANGED <<Fence, mCurrentFence, completedValue, mAllRitems, ObjectCB,
                   bStopForwardMovement, cpuWrites, objWrites, drawCalls, lastPick,
                   clicks, animVars>>

UpdateThrow == UpdateThrowIn(SUBSET Keys, FrameTimes)

\* The event set one fence value early.
EventSetEarly(f) == completedValue + 1 >= f

\* The event is set once the fence has reached the value; Update goes on.
EventSet(f) == completedValue >= f

UpdateWake ==
    /\ pc = "wait"
    /\ EventSet(Fence[mCurrFrameResourceIndex])
    /\ UpdateRest(mCurrFrameResourceIndex, mTimer)
    /\ pc' = "updated"
    /\ UNCHANGED <<ringVars, mCameraPos, bStopForwardMovement, drawCalls, clicks, mTimer>>

\* DrawRenderItems: one DrawIndexedInstanced per item of the layer.
DrawRenderItems(ritems) ==
    [k \in 1 .. Len(ritems) |->
        LET ri == mAllRitems[ritems[k]] IN
        [item               |-> ritems[k],
         Visible            |-> ri.Visible,
         IndexCount         |-> ri.IndexCount,
         StartIndexLocation |-> ri.StartIndexLocation,
         BaseVertexLocation |-> ri.BaseVertexLocation]]

\* The slot given the value mCurrentFence had before the increment.
RecordedFencePostIncrement(f) == f

\* The slot given a value a whole ring beyond the one Draw signals.
RecordedFenceAhead(f) == f + 1 + gNumFrameResources

\* Draw, line 406: the value of ++mCurrentFence.
RecordedFence(f) == f + 1

Draw ==
    /\ pc = "updated"
    /\ cpuWrites' = {SlotWrite("CmdListAlloc", mCurrFrameResourceIndex)}
    /\ drawCalls' = DrawRenderItems(OpaqueLayer) \o DrawRenderItems(TreeSpritesLayer)
                        \o DrawRenderItems(HighlightLayer)
    /\ mCurrentFence' = mCurrentFence + 1
    /\ Fence' = [Fence EXCEPT ![mCurrFrameResourceIndex] = RecordedFence(mCurrentFence)]
    /\ pc' = "idle"
    /\ UNCHANGED <<mCurrFrameResourceIndex, completedValue, mAllRitems, ObjectCB,
                   mCameraPos, bStopForwardMovement, objWrites, lastPick, clicks,
                   mTimer, animVars>>

\* The GPU finishes the commands before the next signalled fence point.
GpuComplete ==
    /\ completedValue < mCurrentFence
    /\ completedValue' = completedValue + 1
    /\ UNCHANGED <<pc, mCurrFrameResourceIndex, Fence, mCurrentFence, mAllRitems,
                   ObjectCB, mCameraPos, bStopForwardMovement, cpuWrites, objWrites,
                   drawCalls, lastPick, clicks, mTimer, animVars>>

(***************************************************************************)
(* MazeCollision(sx, sy), called by OnMouseDown for the right button.       *)
(* The click is at the centre of the client area, so vx = vy = 0 and the    *)
(* view-space ray points along +z; the camera is not rotated.               *)
(***************************************************************************)
\* mCamera.GetView() of an unrotated camera.
ViewMatrix == XMMatrixTranslation(-mCameraPos[1], -mCameraPos[2], -mCameraPos[3])

\* BoundingBox::Intersects(Origin, Direction, Dist) for a ray along +z or
\* -z: the slab test; Dist is 0 when the ray misses.
BoundsIntersects(b, o, d) ==
    LET t1 == (b.Center[3] - b.Extents[3] - o[3]) * d[3]
        t2 == (b.Center[3] + b.Extents[3] - o[3]) * d[3]
        inside == /\ Abs(o[1] - b.Center[1]) <= b.Extents[1]
                  /\ Abs(o[2] - b.Center[2]) <= b.Extents[2]
        ok == inside /\ Max2(t1, t2) >= 0
    IN [hit |-> ok, t |-> IF ok THEN Min2(t1, t2) ELSE 0]

\* TriangleTests::Intersects(Origin, Direction, V0, V1, V2, Dist): both
\* faces count, edges included, Dist is 0 when the ray misses.
TriangleIntersects(o, d, v0, v1, v2) ==
    LET e1 == VSub(v1, v0)
        e2 == VSub(v2, v0)
        p == Cross(d, e2)
        det == Dot(e1, p)
        s == VSub(o, v0)
        u == Dot(s, p)
        q == Cross(s, e1)
        v == Dot(d, q)
        t == Dot(e2, q)
        ok == \/ det > 0 /\ u >= 0 /\ u <= det /\ v >= 0 /\ u + v <= det /\ t >= 0
              \/ det < 0 /\ u <= 0 /\ u >= det /\ v <= 0 /\ u + v >= det /\ t <= 0
    IN [hit |-> ok, t |-> IF ok THEN t \div det ELSE 0]

\* indices[p] where indices is the 16-bit index buffer cast to
\* std::uint32_t*: two adjacent 16-bit values, low half first.
InIndexBuffer(p) == 2 * p + 2 <= Len(IndexBufferCPU)
Indices32At(p) == IndexBufferCPU[2 * p + 1] + Word16 * IndexBufferCPU[2 * p + 2]

\* vertices[i] lies in the vertex buffer.
InVertexBuffer(i) == i < Len(VertexBufferCPU)

\* Every read of triangle i of the loop stays inside the two buffers.
TriangleInBuffers(i) ==
    /\ \A c \in 0 .. 2 : InIndexBuffer(i * 3 + c)
    /\ \A c \in 0 .. 2 : InVertexBuffer(Indices32At(i * 3 + c))

\* geo->IndexFormat of the geometries: all hold std::uint16_t indices.
IndexFormat(geo) == "R16_UINT"

\* The width MazeCollision reads the indices with (line 2566).
PickerIndexFormat == "R32_UINT"

\* What a ray/triangle test may return when it read vertices outside the
\* buffer: a miss, or a hit at 1.5 or at 3.0.
GarbageT == {3, 6}
Miss == [hit |-> FALSE, t |-> 0]
GarbageOutcomes == {Miss} \cup {[hit |-> TRUE, t |-> d] : d \in GarbageT}

\* The largest triCount of an opaque item.
MaxTriCount == Len(BoxMesh.Indices32) \div 3

\* Lines 2540-2553: the ray the loop holds after the body of item ri.
ToLocalRay(ray, ri) ==
    LET invView == XMMatrixInverse(ViewMatrix)
        invWorld == XMMatrixInverse(ri.World)
        toLocal == XMMatrixMultiply(invView, invWorld)
    IN [rayOrigin |-> XMVector3TransformCoord(ray.rayOrigin, toLocal),
        rayDir    |-> XMVector3Normalize(XMVector3TransformNormal(ray.rayDir, toLocal))]

\* Lines 2517-2518.
ViewRay == [rayOrigin |-> <<0, 0, 0>>, rayDir |-> <<0, 0, 1>>]

\* The ray held after the first k items of the Opaque layer.
RECURSIVE RayAfter(_)
RayAfter(k) ==
    IF k = 0 THEN ViewRay
    ELSE IF mAllRitems[OpaqueLayer[k]].Visible = FALSE THEN RayAfter(k - 1)
    ELSE ToLocalRay(RayAfter(k - 1), mAllRitems[OpaqueLayer[k]])

\* The positions in the Opaque layer whose triangle loop runs.
BoxHitItems ==
    {k \in 1 .. Len(OpaqueLayer) :
        LET ri == mAllRitems[OpaqueLayer[k]] IN
        /\ ri.Visible
        /\ BoundsIntersects(ri.Bounds, RayAfter(k).rayOrigin, RayAfter(k).rayDir).hit}

\* Line 2589.
IsNearer(t, tmin) == t < tmin

\* Lines 2595-2604: the highlight item made to show triangle i of ri.
ShowTriangle(picked, ri, i) ==
    [picked EXCEPT !.Visible = TRUE,
                   !.IndexCount = 3,
                   !.BaseVertexLocation = 0,
                   !.World = ri.World,
                   !.NumFramesDirty = gNumFrameResources,
                   !.StartIndexLocation = 3 * i]

\* Lines 2571-2607: the triangles i .. triCount-1 of item ri.  `mem` gives
\* the result of a test that read outside the buffers; `fault` says that
\* such a read is an access violation instead.
RECURSIVE TriangleLoop(_, _, _, _, _, _)
TriangleLoop(st, ri, ray, i, mem, fault) ==
    IF i >= ri.IndexCount \div 3 \/ st.crashed THEN st
    ELSE IF ~TriangleInBuffers(i) /\ fault THEN [st EXCEPT !.crashed = TRUE]
    ELSE
        LET res == IF TriangleInBuffers(i)
                   THEN TriangleIntersects(ray.rayOrigin, ray.rayDir,
                            VertexBufferCPU[Indices32At(i * 3) + 1],
                            VertexBufferCPU[Indices32At(i * 3 + 1) + 1],
                            VertexBufferCPU[Indices32At(i * 3 + 2) + 1])
                   ELSE mem[i]
        IN IF res.hit /\ IsNearer(res.t, st.tmin)
           THEN TriangleLoop([st EXCEPT !.tmin = res.t,
                                        !.pickedTriangle = i,
                                        !.picked = ShowTriangle(st.picked, ri, i)],
                             ri, ray, i + 1, mem, fault)
           ELSE TriangleLoop(st, ri, ray, i + 1, mem, fault)

\* The flag kept once an item was near.
StopFlagSticky(tmin, old) == old \/ tmin <= StopDistance

\* Lines 2609-2616.
StopFlag(tmin, old) ==
    IF tmin <= StopDistance THEN TRUE
    ELSE IF tmin >= StopDistance THEN FALSE
    ELSE old

\* pickedTriangle of an item none of whose triangles was picked.
NoTriangle == -1

\* Lines 2532-2617: the body of the loop for the k-th item of the layer.
\* `items` logs, per item looked at, whether its box was hit and the tmin
\* and pickedTriangle its body ended with.
PickItem(st, k, mem, fault) ==
    LET ri == mAllRitems[OpaqueLayer[k]]
        ray == ToLocalRay(st.ray, ri)
        box == BoundsIntersects(ri.Bounds, ray.rayOrigin, ray.rayDir)
        tl == IF box.hit
              THEN TriangleLoop([tmin |-> Infinity, pickedTriangle |-> NoTriangle,
                                 picked |-> st.picked, crashed |-> FALSE],
                                ri, ray, 0, mem[k], fault)
              ELSE [tmin |-> box.t, pickedTriangle |-> NoTriangle,
                    picked |-> st.picked, crashed |-> FALSE]
    IN IF ri.Visible = FALSE THEN st
       ELSE [ray     |-> ray,
             picked  |-> tl.picked,
             stop    |-> IF tl.crashed THEN st.stop ELSE StopFlag(tl.tmin, st.stop),
             crashed |-> tl.crashed,
             items   |-> Append(st.items,
                            [item |-> OpaqueLayer[k], box |-> box.hit, tmin |-> tl.tmin,
                             pickedTriangle |-> tl.pickedTriangle])]

\* The highlight left as the last call set it.
HideHighlightSkipped(picked) == picked

\* Line 2528: mPickedRitem->Visible = false.
HideHighlight(picked) == [picked EXCEPT !.Visible = FALSE]

RECURSIVE PickLoop(_, _, _)
PickLoop(k, mem, fault) ==
    IF k = 0
    THEN [ray     |-> ViewRay,
          picked  |-> HideHighlight(mAllRitems[PickedId]),
          stop    |-> bStopForwardMovement,
          crashed |-> FALSE,
          items   |-> <<>>]
    ELSE LET st == PickLoop(k - 1, mem, fault) IN
         IF st.crashed THEN st ELSE PickItem(st, k, mem, fault)

\* The outcomes the reads outside the buffers can have in one call: an
\* access violation at the first of them, or a result for each.
ReadOutcomes(fault) ==
    IF fault
    THEN {[k \in BoxHitItems |-> [i \in 0 .. (MaxTriCount - 1) |-> Miss]]}
    ELSE [BoxHitItems -> [0 .. (MaxTriCount - 1) -> GarbageOutcomes]]

MazeCollision ==
    /\ pc = "idle"
    /\ clicks < MaxClicks
    /\ clicks' = clicks + 1
    /\ \E fault \in BOOLEAN :
       \E mem \in ReadOutcomes(fault) :
       \E r \in {PickLoop(Len(OpaqueLayer), mem, fault)} :
        /\ mAllRitems' = [mAllRitems EXCEPT ![PickedId] = r.picked]
        /\ bStopForwardMovement' = r.stop
        /\ pc' = IF r.crashed THEN "crashed" ELSE "idle"
        /\ objWrites' = IF \E n \in 1 .. Len(r.items) :
                                r.items[n].pickedTriangle /= NoTriangle
                        THEN [objWrites EXCEPT ![PickedId] = <<>>]
                        ELSE objWrites
        /\ lastPick' = [fresh |-> TRUE, returned |-> ~r.crashed, items |-> r.items,
                        before |-> mAllRitems[PickedId]]
    /\ UNCHANGED <<ringVars, ObjectCB, mCameraPos, cpuWrites, drawCalls, mTimer, animVars>>

CpuNext == UpdateNoWait \/ UpdateBlock \/ UpdateThrow \/ UpdateWake \/ Draw \/ MazeCollision

Next == CpuNext \/ GpuComplete

Spec == Init /\ [][Next]_vars

\* The runs that follow the animation: nobody clicks or presses a key, and
\* the frames are short or very long.
AnimUpdateNoWait == UpdateNoWaitIn(NoKeys, AnimFrameTimes)
AnimUpdateBlock == UpdateBlockIn(NoKeys, AnimFrameTimes)
AnimUpdateThrow == UpdateThrowIn(NoKeys, AnimFrameTimes)

AnimNext ==
    AnimUpdateNoWait \/ AnimUpdateBlock \/ AnimUpdateThrow \/ UpdateWake \/ Draw
        \/ GpuComplete

AnimSpec == Init /\ [][AnimNext]_vars

\* The frame loop with a GPU that completes every fence value signalled on
\* the queue, a thread that wakes up once its event is set and a message
\* loop that calls Draw after every Update.
FairSpec ==
    Spec /\ WF_vars(GpuComplete) /\ WF_vars(UpdateWake) /\ WF_vars(Draw)

(***************************************************************************)
(* The frame-resource ring.                                                 *)
(***************************************************************************)
\* C1: every CPU write into a ring slot (object, material and pass
\* constants, the wave vertex buffer, the command-allocator reset of Draw)
\* is made when the slot's recorded Fence is 0 or the GPU's completed fence
\* value has reached it, for every interleaving of GPU completions.
C1_RingNonOverlap ==
    \A w \in cpuWrites : w.fence = 0 \/ w.completed >= w.fence

\* Draw resets the allocator of a slot that was submitted before.
C1_Witness ==
    \E w \in cpuWrites : w.buf = "CmdListAlloc" /\ w.fence > 0

\* C2: once an item's NumFramesDirty is set to 3 and the item is left
\* alone, the following Updates, one per frame, each copy its transposed
\* World/TexTransform into the slot of that frame and decrement the counter
\* by one: 3 copies into 3 distinct slots, the counter 0 after the third,
\* and then no further copy.
C2_DirtyPropagation ==
    \A n \in Items :
        LET e == mAllRitems[n]
            w == objWrites[n]
        IN /\ e.NumFramesDirty \in 0 .. gNumFrameResources
           /\ Len(w) = gNumFrameResources - e.NumFramesDirty
           /\ \A j \in 1 .. Len(w) : w[j].data = ObjConstants(e)
           /\ \A j, k \in 1 .. Len(w) : j /= k => w[j].slot /= w[k].slot
           /\ \A j \in 1 .. (Len(w) - 1) : w[j + 1].frame = w[j].frame + 1
           /\ (Len(w) > 0 /\ e.NumFramesDirty > 0) =>
                  w[Len(w)].frame = IF pc = "updated" THEN mCurrentFence
                                    ELSE mCurrentFence - 1

\* The highlight item, marked dirty by a pick, has been copied into the three
\* slots and a fourth Update has left it alone.
C2_Witness ==
    /\ mAllRitems[PickedId].Visible
    /\ mAllRitems[PickedId].NumFramesDirty = 0
    /\ Len(objWrites[PickedId]) = gNumFrameResources
    /\ pc = "updated"
    /\ objWrites[PickedId][gNumFrameResources].frame < mCurrentFence

\* C3: the frames submitted by Draw whose fence value the GPU has not yet
\* completed are never more than the ring depth, however slow the GPU is.
C3_DriftBounded == mCurrentFence - completedValue <= gNumFrameResources

\* Three frames in flight and Update waiting for the oldest of them.
C3_Witness ==
    /\ mCurrentFence - completedValue = gNumFrameResources
    /\ pc = "wait"

\* C4: when the GPU does not complete the fence value Update waits for,
\* Update does not stay blocked: the CPU thread has a step of its own, the
\* one that ends in the fatal error.
C4_WaitFailureIsFatal ==
    (pc = "wait" /\ ~EventSet(Fence[mCurrFrameResourceIndex])) => ENABLED CpuNext

(***************************************************************************)
(* The picker.  A MazeCollision call is judged in the states up to the next *)
(* Update, from what it logged.                                             *)
(***************************************************************************)
PickReturned == lastPick.fresh /\ lastPick.returned

\* The highlight item.
Highlight == mAllRitems[PickedId]

\* The logged items one of whose triangles was hit.
HitItems ==
    {n \in 1 .. Len(lastPick.items) : lastPick.items[n].pickedTriangle /= NoTriangle}

\* The smallest hit parameter over all triangles of all items.
NearestT ==
    CHOOSE t \in {lastPick.items[n].tmin : n \in HitItems} :
        \A n \in HitItems : t <= lastPick.items[n].tmin

\* The last logged item with a hit: the one whose triangle ShowTriangle
\* was last called with.
LastHit == CHOOSE n \in HitItems : \A m \in HitItems : m <= n

\* C5: after a MazeCollision that hit some triangle, the highlight shows
\* the triangle with the smallest t over all triangles of all visible
\* opaque items: it is visible, has the World of an item whose nearest
\* triangle is at that t, and starts at that triangle.
C5_GloballyNearestWins ==
    (PickReturned /\ HitItems /= {}) =>
        \E n \in HitItems :
            /\ lastPick.items[n].tmin = NearestT
            /\ Highlight.Visible
            /\ Highlight.World = mAllRitems[lastPick.items[n].item].World
            /\ Highlight.StartIndexLocation = 3 * lastPick.items[n].pickedTriangle

\* C6: after a MazeCollision that hit no triangle, the highlight is
\* invisible and its IndexCount, StartIndexLocation, BaseVertexLocation,
\* World and NumFramesDirty are what they were before the call.
C6_NoHitKeepsHighlight ==
    (PickReturned /\ HitItems = {}) =>
        /\ Highlight.Visible = FALSE
        /\ Highlight.IndexCount = lastPick.before.IndexCount
        /\ Highlight.StartIndexLocation = lastPick.before.StartIndexLocation
        /\ Highlight.BaseVertexLocation = lastPick.before.BaseVertexLocation
        /\ Highlight.World = lastPick.before.World
        /\ Highlight.NumFramesDirty = lastPick.before.NumFramesDirty

\* A call that ran triangle tests and hit nothing, after a call that had
\* made the highlight show a triangle.
C6_Witness ==
    /\ PickReturned
    /\ HitItems = {}
    /\ \E n \in 1 .. Len(lastPick.items) : lastPick.items[n].box
    /\ lastPick.before.Visible
    /\ lastPick.before.IndexCount = 3

\* C7: after a MazeCollision that hit some triangle, bStopForwardMovement
\* is true when the nearest hit over all visible opaque items is at 2.0 or
\* less and false when it is farther, whatever other items the layer holds.
C7_StopThreshold ==
    (PickReturned /\ HitItems /= {}) =>
        (bStopForwardMovement <=> NearestT <= StopDistance)

\* C8: an item whose Visible flag is false is not drawn: every draw call
\* Draw issues for such an item draws zero indices.
C8_InvisibleNotDrawn ==
    \A k \in 1 .. Len(drawCalls) :
        drawCalls[k].Visible = FALSE => drawCalls[k].IndexCount = 0

\* C9: after a MazeCollision that hit, the highlight has the World of the
\* item that owns the nearest triangle and NumFramesDirty 3; and a call that
\* changed the highlight's World left its NumFramesDirty at 3.
C9_HighlightTransform ==
    /\ (PickReturned /\ HitItems /= {}) =>
           /\ \E n \in HitItems :
                 /\ lastPick.items[n].tmin = NearestT
                 /\ Highlight.World = mAllRitems[lastPick.items[n].item].World
           /\ Highlight.NumFramesDirty = gNumFrameResources
    /\ (PickReturned /\ Highlight.World /= lastPick.before.World) =>
           Highlight.NumFramesDirty = gNumFrameResources

\* C10: after a MazeCollision whose last picked triangle is triangle k of
\* item R, the highlight's draw range is the one triangle k of R is drawn
\* with: IndexCount 3, StartIndexLocation = R.StartIndexLocation + 3k and
\* BaseVertexLocation = R.BaseVertexLocation.
C10_HighlightIndexRange ==
    (PickReturned /\ HitItems /= {}) =>
        LET R == mAllRitems[lastPick.items[LastHit].item]
            k == lastPick.items[LastHit].pickedTriangle
        IN /\ Highlight.IndexCount = 3
           /\ Highlight.StartIndexLocation = R.StartIndexLocation + 3 * k
           /\ Highlight.BaseVertexLocation = R.BaseVertexLocation

TiedItems == {n \in HitItems : lastPick.items[n].tmin = NearestT}

\* The first of them in the order of the Opaque layer.
FirstTied == CHOOSE n \in TiedItems : \A m \in TiedItems : n <= m

\* C12: when triangles of several items are hit at exactly the same
\* smallest distance, the highlight shows the one met first in iteration
\* order: it has the World of the first such item of the Opaque layer and
\* starts at that item's first nearest triangle.
C12_TieBreak ==
    (PickReturned /\ Cardinality(TiedItems) >= 2) =>
        /\ Highlight.Visible
        /\ Highlight.World = mAllRitems[lastPick.items[FirstTied].item].World
        /\ Highlight.StartIndexLocation = 3 * lastPick.items[FirstTied].pickedTriangle

\* C13: the ObjCBIndex values of the render items are pairwise distinct,
\* the highlight item and the last wall included, and each is smaller than
\* the number of items: no two items share an object-constant element.
C13_UniqueObjCBIndex ==
    /\ \A m, n \in Items :
          m /= n => mAllRitems[m].ObjCBIndex /= mAllRitems[n].ObjCBIndex
    /\ \A n \in Items : mAllRitems[n].ObjCBIndex < Len(mAllRitems)

\* C14: after every frame the number of Disturb calls made so far is the
\* number of whole quarter seconds of the total time, whatever the frame
\* durations were.
C14_DisturbCadence ==
    pc = "updated" => disturbs.count = mTimer.TotalTime \div Quarter

\* C15: every Disturb(i, j, r) call of UpdateWaves has 1 <= i <= RowCount - 2
\* and 1 <= j <= ColumnCount - 2, so that the cells i - 1, i + 1, j - 1 and
\* j + 1 the call also writes are cells of the grid.
C15_DisturbInterior ==
    disturbs.called =>
        /\ 1 <= disturbs.i /\ disturbs.i <= RowCount - 2
        /\ 1 <= disturbs.j /\ disturbs.j <= ColumnCount - 2

\* A disturbance at the smallest row and the largest column UpdateWaves
\* samples.
C15_Witness ==
    /\ disturbs.called
    /\ disturbs.i = RandLo
    /\ disturbs.j = ColumnCount - RandMargin

\* C16: when MazeCollision runs the triangle loop on an item whose index
\* buffer is not stored in the format the picker reads, the call does not
\* return a result: it ends in the fatal error with its diagnostic.
C16_FormatMismatchFailsFast ==
    (/\ lastPick.fresh
     /\ \E n \in 1 .. Len(lastPick.items) :
           /\ lastPick.items[n].box
           /\ IndexFormat(mAllRitems[lastPick.items[n].item].Geo) /= PickerIndexFormat)
        => (~lastPick.returned /\ pc = "fatal")

\* The Updates that have run their copies so far.
UpdatesDone == (mCurrentFence - InitFence) + (IF pc = "updated" THEN 1 ELSE 0)

\* C17: the water material is marked dirty for the whole ring in every
\* frame before the material constants are copied: its counter never falls
\* below 2, and after every Update it is 2 and the current slot holds the
\* water constants with this frame's UV offset.  A material nothing changes
\* is copied once into each of the 3 slots by the first 3 Updates and never
\* again; its counter is then 0.
C17_AnimatedMaterialPropagation ==
    LET water == mMaterials["eight"]
        other == mMaterials["one"]
        w == matWrites["one"]
    IN /\ water.NumFramesDirty >= gNumFrameResources - 1
       /\ pc = "updated" =>
            /\ water.NumFramesDirty = gNumFrameResources - 1
            /\ MaterialCB[mCurrFrameResourceIndex][water.MatCBIndex] = MatConstants(water)
       /\ other.NumFramesDirty = Max2(0, gNumFrameResources - UpdatesDone)
       /\ Len(w) = Min2(gNumFrameResources, UpdatesDone)
       /\ \A k \in 1 .. Len(w) :
            /\ w[k].frame = InitFence + k - 1
            /\ w[k].data = MatConstants(other)
            /\ \A l \in 1 .. Len(w) : k /= l => w[k].slot /= w[l].slot

\* The fourth Update, back on the slot of the first: the water constants
\* of the slot have been overwritten with the offset of this frame, and the
\* other material, copied into all three slots before, has been left alone.
C17_Witness ==
    /\ pc = "updated"
    /\ UpdatesDone = gNumFrameResources + 1
    /\ mMaterials["one"].NumFramesDirty = 0
    /\ Len(matWrites["one"]) = gNumFrameResources
    /\ mMaterials["eight"].MatTransform[4][2] = UpdatesDone * ShortFrame * VScroll
    /\ MaterialCB[mCurrFrameResourceIndex][7] = MatConstants(mMaterials["eight"])

\* C18: starting from the offsets (0, 0), after every AnimateMaterials call,
\* whatever the frame's delta time, the water offsets tu = MatTransform(3, 0)
\* and tv = MatTransform(3, 1) are at least 0 and less than 1.0.
C18_UVWrap ==
    LET tu == mMaterials["eight"].MatTransform[4][1]
        tv == mMaterials["eight"].MatTransform[4][2]
    IN /\ 0 <= tu /\ tu < UVOne
       /\ 0 <= tv /\ tv < UVOne

\* The frames whose Update has advanced the index so far.
FramesStarted ==
    (mCurrentFence - InitFence) + (IF pc \in {"updated", "wait", "fatal"} THEN 1 ELSE 0)

\* C19: the index of the current slot is the number of frames started,
\* modulo 3: it is always 0, 1 or 2, frame 1 runs on slot 1 and frame 3 is
\* the first on slot 0, three frames in a row run on three distinct slots,
\* and the slot of frame k is next used by frame k + 3.
C19_RoundRobin ==
    /\ mCurrFrameResourceIndex \in Slots
    /\ mCurrFrameResourceIndex = FramesStarted % gNumFrameResources

\* The fourth frame, on the slot of the first.
C19_Witness ==
    /\ pc = "updated"
    /\ FramesStarted = gNumFrameResources + 1
    /\ mCurrFrameResourceIndex = 1

\* The slots a Draw has recorded a fence value in.
Recorded == {s \in Slots : Fence[s] /= 0}

\* C20: every Draw records in the current slot the previous mCurrentFence
\* plus 1, the value it signals; the nonzero Fence values of the slots are
\* pairwise distinct, the Fence of a slot never decreases, and the slot the
\* next Update moves to holds the smallest of the recorded values, when it
\* holds one.
C20_FencesIncrease ==
    /\ [](/\ \A s, t \in Recorded : s /= t => Fence[s] /= Fence[t]
          /\ \A s \in Recorded : Fence[s] <= mCurrentFence
          /\ pc = "idle" =>
                LET n == NextIndex(mCurrFrameResourceIndex) IN
                n \in Recorded => \A s \in Recorded : Fence[n] <= Fence[s])
    /\ [][/\ \A s \in Slots : Fence'[s] >= Fence[s]
          /\ (pc = "updated" /\ pc' = "idle") =>
                /\ mCurrentFence' = mCurrentFence + 1
                /\ Fence'[mCurrFrameResourceIndex] = mCurrentFence'
                /\ Fence'[mCurrFrameResourceIndex] > Fence[mCurrFrameResourceIndex]]_vars

\* The fourth Draw: it replaces the fence value of the first frame in
\* slot 1, and all three slots hold a value.
C20_Witness ==
    /\ pc = "idle"
    /\ Recorded = Slots
    /\ Fence[1] = InitFence + gNumFrameResources + 1
    /\ mCurrentFence = Fence[1]

NextSlots(k) == {(mCurrFrameResourceIndex + d) % gNumFrameResources : d \in 1 .. k}

\* The slots whose stored object constants are not those of item n: the
\* slots no Update has written yet (no Draw has recorded a fence in them)
\* and those written with something else.
StaleSlots(n) ==
    {s \in Slots :
        \/ Fence[s] = 0
        \/ ObjectCB[s][mAllRitems[n].ObjCBIndex] /= ObjConstants(mAllRitems[n])}

\* The highlight item: three Updates in a row have copied it since the
\* last pick that changed it.
C22_HighlightConverged ==
    (pc = "idle" /\ Len(objWrites[PickedId]) = gNumFrameResources) =>
        StaleSlots(PickedId) = {}

\* C22: between frames, the ring slots whose stored object constants differ
\* from an item's current World are among the next NumFramesDirty slots
\* Update will visit, for every item and any interleaving of picks and
\* Updates; and once 3 Updates in a row have run with no pick in between,
\* all 3 slots hold the transposed World of the highlight item.
C22_StaleSlotsConverge ==
    /\ C22_HighlightConverged
    /\ pc = "idle" =>
          \A n \in Items : StaleSlots(n) \subseteq NextSlots(mAllRitems[n].NumFramesDirty)

\* The view-space pick ray taken into the local space of item ri alone.
OwnRay(ri) == ToLocalRay(ViewRay, ri)

\* C23: the ray MazeCollision tests an item with is the view-space pick ray
\* transformed by that item's own inverse(View) * inverse(World) only,
\* whatever items the loop examined before; the outcome of the item's
\* bounding-box test is the outcome for that ray.
C23_RayIndependence ==
    lastPick.fresh =>
        \A n \in 1 .. Len(lastPick.items) :
        \A k \in 1 .. Len(OpaqueLayer) :
            OpaqueLayer[k] = lastPick.items[n].item =>
                LET ri == mAllRitems[OpaqueLayer[k]] IN
                /\ RayAfter(k) = OwnRay(ri)
                /\ lastPick.items[n].box =
                      BoundsIntersects(ri.Bounds, OwnRay(ri).rayOrigin,
                                       OwnRay(ri).rayDir).hit

\* What the loop logged for the last visible item it examined.
LastItem == lastPick.items[Len(lastPick.items)]

\* C24: after a MazeCollision that examined a visible opaque item,
\* bStopForwardMovement is true exactly when the tmin of the last item
\* examined is at most 2.0, that tmin being 0 when the ray missed the
\* item's bounding box and infinite when the box was hit and no triangle
\* was; the distances of the items before it do not matter.
C24_StopFollowsLastItem ==
    (PickReturned /\ Len(lastPick.items) > 0) =>
        /\ bStopForwardMovement <=> (LastItem.tmin <= StopDistance)
        /\ ~LastItem.box => LastItem.tmin = 0
        /\ (LastItem.box /\ LastItem.pickedTriangle = NoTriangle) =>
              LastItem.tmin = Infinity

\* A call that left the flag false although it hit a near triangle of an
\* earlier item: the box of the last item was hit and its tmin is far.
C24_Witness ==
    /\ PickReturned
    /\ Len(lastPick.items) > 0
    /\ LastItem.box
    /\ LastItem.tmin > StopDistance
    /\ ~bStopForwardMovement
    /\ \E n \in HitItems : lastPick.items[n].tmin <= StopDistance

\* The vertex that corner c of triangle i of item ri is drawn with:
\* DrawIndexedInstanced with the item's StartIndexLocation and
\* BaseVertexLocation.
DrawnVertex(ri, i, c) ==
    IndexBufferCPU[ri.StartIndexLocation + 3 * i + c + 1] + ri.BaseVertexLocation

\* C25: for an item whose bounding box is hit, the triangles MazeCollision
\* tests are the triangles the item is drawn with: corner c of triangle i is
\* read inside the index buffer and names the vertex stored at position
\* StartIndexLocation + 3i + c of the index buffer, offset by
\* BaseVertexLocation.
C25_TrianglesOfTheItem ==
    lastPick.fresh =>
        \A n \in 1 .. Len(lastPick.items) :
            lastPick.items[n].box =>
                LET ri == mAllRitems[lastPick.items[n].item] IN
                \A i \in 0 .. (ri.IndexCount \div 3 - 1) :
                \A c \in 0 .. 2 :
                    /\ InIndexBuffer(i * 3 + c)
                    /\ Indices32At(i * 3 + c) = DrawnVertex(ri, i, c)

\* The vertices of submesh n: its part of the combined vertex buffer.
OwnVertices(n) ==
    {VertexBufferCPU[VertexOffset(n) + i] : i \in 1 .. Len(ShapeMesh(n).Vertices)}

\* Point v lies in the box b.
InBox(b, v) == \A a \in 1 .. 3 : Abs(v[a] - b.Center[a]) <= b.Extents[a]

\* The submesh of shapeGeo an item is drawn from.
SubmeshOf(ri) ==
    CHOOSE n \in 1 .. Len(ShapeNames) : VertexOffset(n) = ri.BaseVertexLocation

\* C26: the Bounds every opaque item has from its submesh of shapeGeo is
\* the min/max box of that submesh's own vertices: it contains each of
\* them, and each of its faces touches one of them.
C26_BoundsConservative ==
    \A k \in 1 .. Len(OpaqueLayer) :
        LET ri == mAllRitems[OpaqueLayer[k]]
            own == OwnVertices(SubmeshOf(ri))
        IN /\ \A v \in own : InBox(ri.Bounds, v)
           /\ \A a \in 1 .. 3 :
                 /\ \E v \in own : v[a] = ri.Bounds.Center[a] - ri.Bounds.Extents[a]
                 /\ \E v \in own : v[a] = ri.Bounds.Center[a] + ri.Bounds.Extents[a]

\* The items of the last Draw's draw calls.
DrawnItems == {drawCalls[k].item : k \in 1 .. Len(drawCalls)}

\* C27: every Draw issues a draw call for the waves item, and for every
\* item of every layer that holds one.
C27_WavesDrawn ==
    drawCalls /= <<>> =>
        /\ WavesId \in DrawnItems
        /\ \A n \in Items :
              (\E l \in {OpaqueLayer, TransparentLayer, TreeSpritesLayer, HighlightLayer} :
               \E k \in 1 .. Len(l) : l[k] = n) => n \in DrawnItems

\* C28: in every reachable state the NumFramesDirty of every render item
\* and of every material is at least 0 and at most 3.
C28_DirtyCountersInRange ==
    /\ \A n \in Items :
          /\ 0 <= mAllRitems[n].NumFramesDirty
          /\ mAllRitems[n].NumFramesDirty <= gNumFrameResources
    /\ \A m \in MaterialNames :
          /\ 0 <= mMaterials[m].NumFramesDirty
          /\ mMaterials[m].NumFramesDirty <= gNumFrameResources

\* A pick has marked the highlight dirty again after the counters of the
\* items and of the unanimated material had run down to 0, and the next
\* Update has run on all of them.
C28_Witness ==
    /\ pc = "updated"
    /\ mAllRitems[PickedId].Visible
    /\ mAllRitems[PickedId].NumFramesDirty = gNumFrameResources - 1
    /\ \A n \in Items \ {PickedId} : mAllRitems[n].NumFramesDirty = 0
    /\ mMaterials["one"].NumFramesDirty = 0

\* C29: for every item whose bounding box is hit, every index position
\* MazeCollision reads lies inside the index buffer and every index value
\* it obtains, one 32-bit word made of two adjacent stored indices, is
\* less than the number of vertices in the vertex buffer.
C29_ReadsInsideBuffers ==
    lastPick.fresh =>
        \A n \in 1 .. Len(lastPick.items) :
            lastPick.items[n].box =>
                \A i \in 0 .. (mAllRitems[lastPick.items[n].item].IndexCount \div 3 - 1) :
                    TriangleInBuffers(i)

\* bStopForwardMovement changes only in a MazeCollision call, and no frame
\* taken while it is true moves the camera forward.
C30_FlagWrittenByPickOnly ==
    [][/\ bStopForwardMovement' /= bStopForwardMovement => clicks' = clicks + 1
       /\ bStopForwardMovement => mCameraPos'[3] <= mCameraPos[3]]_vars

\* C30: bStopForwardMovement is false before the first pick; it is written
\* by MazeCollision only, Update, Draw and OnKeyboardInput leaving it as it
\* is; and while it is true no frame moves the camera forward.
C30_StopFlagLifetime ==
    /\ [](clicks = 0 => bStopForwardMovement = FALSE)
    /\ C30_FlagWrittenByPickOnly

====
